---- MODULE Spec2Model ----
(***************************************************************************)
(* http-writer: the Request and Response assemblers, their checked and     *)
(* unchecked serialisation, and the header validator/writer.               *)
(*                                                                         *)
(* Byte strings are TLA+ strings; a byte is a string of length one.  An    *)
(* assembler's header and query iterators (Chain<.., Once<..>>) are the    *)
(* sequences of the items they have still to yield.                        *)
(***************************************************************************)
EXTENDS Integers, Sequences, FiniteSets, TLC

VARIABLES asm, last, prev, calls

vars == <<asm, last, prev, calls>>

(***************************************************************************)
(* Bounds of the model.                                                    *)
(***************************************************************************)
MaxHeaders == 2
MaxQueries == 2
MaxWrites == 2

None == "None"

(***************************************************************************)
(* Bytes.                                                                  *)
(***************************************************************************)
Ch(s, i) == SubSeq(s, i, i)

CR == "\r"
LF == "\n"
\* A TLA+ string cannot hold the byte 0: the model writes it as form feed,
\* a byte it uses for nothing else.
NUL == "\f"
CRLF == CR \o LF

Digit == {"0", "1", "2", "3", "4", "5", "6", "7", "8", "9"}

Alpha ==
    {"a", "b", "c", "d", "e", "f", "g", "h", "i", "j", "k", "l", "m",
     "n", "o", "p", "q", "r", "s", "t", "u", "v", "w", "x", "y", "z",
     "A", "B", "C", "D", "E", "F", "G", "H", "I", "J", "K", "L", "M",
     "N", "O", "P", "Q", "R", "S", "T", "U", "V", "W", "X", "Y", "Z"}

IsAsciiDigit(ch) == ch \in Digit

IsAsciiAlphanumeric(ch) == ch \in Digit \cup Alpha

\* Option<usize>
Some(pos) == [some |-> TRUE, pos |-> pos]
NoPos == [some |-> FALSE]

\* Iterator::position over the bytes of a string: the 0-based index of the
\* first of the 1-based places in hits, if any.
Position(hits) ==
    IF hits = {} THEN NoPos
    ELSE Some((CHOOSE i \in hits : \A j \in hits : i <= j) - 1)

(***************************************************************************)
(* The sink: a std::io::Write whose failAt-th write operation of a call    *)
(* reports an error and accepts nothing (0: it never fails, as a Vec<u8>). *)
(* A write that succeeds takes the whole buffer, as Vec<u8>'s does, and a  *)
(* write! is one operation.                                                *)
(***************************************************************************)
NewSink(failAt) == [buf |-> "", n |-> 0, failAt |-> failAt]

SinkWrite(w, bytes) ==
    IF w.failAt = w.n + 1
    THEN [w |-> [w EXCEPT !.n = @ + 1], ok |-> FALSE]
    ELSE [w |-> [w EXCEPT !.n = @ + 1, !.buf = @ \o bytes], ok |-> TRUE]

\* Whether the sink has reported its failure.
SinkFailed(w) == w.failAt # 0 /\ w.n >= w.failAt

(***************************************************************************)
(* Results.                                                                *)
(***************************************************************************)
Ok(len) == [kind |-> "Ok", len |-> len]
Err(kind) == [kind |-> kind]
NoErr == Err("None")
InvalidName(pos) == [kind |-> "InvalidName", pos |-> pos]
InvalidValue(pos) == [kind |-> "InvalidValue", pos |-> pos]
InvalidHeader(buffer_offset, err) ==
    [kind |-> "InvalidHeader", buffer_offset |-> buffer_offset, err |-> err]

(***************************************************************************)
(* lib.rs: the header validator/writer.                                    *)
(***************************************************************************)
BadNameByte(ch) == ~(IsAsciiAlphanumeric(ch) \/ ch \in {"-", "_"})

BadValueByteNoNul(ch) == ch \in {CR, LF}

BadValueByte(ch) == ch \in {CR, LF, NUL}

NamePosition(name) ==
    Position({i \in 1..Len(name) : BadNameByte(Ch(name, i))})

ValuePosition(value) ==
    Position({i \in 1..Len(value) : BadValueByte(Ch(value, i))})

\* Four sink operations: name, ": ", value, CRLF; the first error ends it.
write_header_unchecked(w, header) ==
    LET r1 == SinkWrite(w, header.name)
        r2 == SinkWrite(r1.w, ": ")
        r3 == SinkWrite(r2.w, header.value)
        r4 == SinkWrite(r3.w, CRLF)
    IN  IF ~r1.ok THEN [w |-> r1.w, res |-> Err("Io")]
        ELSE IF ~r2.ok THEN [w |-> r2.w, res |-> Err("Io")]
        ELSE IF ~r3.ok THEN [w |-> r3.w, res |-> Err("Io")]
        ELSE IF ~r4.ok THEN [w |-> r4.w, res |-> Err("Io")]
        ELSE [w |-> r4.w,
              res |-> Ok(Len(header.name) + 2 + Len(header.value) + 2)]

write_header(w, header) ==
    IF NamePosition(header.name).some
    THEN [w |-> w, res |-> InvalidName(NamePosition(header.name).pos)]
    ELSE IF ValuePosition(header.value).some
    THEN [w |-> w, res |-> InvalidValue(ValuePosition(header.value).pos)]
    ELSE write_header_unchecked(w, header)

(***************************************************************************)
(* version.rs                                                              *)
(***************************************************************************)
UNSPECIFIED == [tag |-> "UNSPECIFIED"]
V1 == [tag |-> "V1"]
V1_1 == [tag |-> "V1_1"]
Dynamic(s) == [tag |-> "Dynamic", s |-> s]

as_str(version) ==
    CASE version.tag = "V1" -> "1.0"
      [] version.tag = "V1_1" -> "1.1"
      [] version.tag = "UNSPECIFIED" -> ""
      [] version.tag = "Dynamic" -> version.s

VersionOkLengthOnly(version) == Len(version) = 3

\* The version check both write_to share.
VersionOk(version) ==
    ~(\/ Len(version) # 3
      \/ ~(\E i \in 1..Len(version) :
              IsAsciiDigit(Ch(version, i)) \/ Ch(version, i) = "."))

(***************************************************************************)
(* request.rs: Method, and the path and query grammars of fluent_uri that  *)
(* write_to consults (the bytes the model uses carry no '%').              *)
(***************************************************************************)
Get == [tag |-> "Get"]
Custom(c) == [tag |-> "Custom", c |-> c]
NoMethod == [tag |-> "None"]

MethodStr(method) ==
    CASE method.tag = "Get" -> "GET"
      [] method.tag = "Head" -> "HEAD"
      [] method.tag = "Post" -> "POST"
      [] method.tag = "Put" -> "PUT"
      [] method.tag = "Delete" -> "DELETE"
      [] method.tag = "Connect" -> "CONNECT"
      [] method.tag = "Options" -> "OPTIONS"
      [] method.tag = "Trace" -> "TRACE"
      [] method.tag = "Patch" -> "PATCH"
      [] OTHER -> method.c

Unreserved == Digit \cup Alpha \cup {"-", ".", "_", "~"}
SubDelims == {"!", "$", "&", "'", "(", ")", "*", "+", ",", ";", "="}
PathByte == Unreserved \cup SubDelims \cup {":", "@", "/"}
QueryByte == PathByte \cup {"?"}

EStrPathNew(s) == \A i \in 1..Len(s) : Ch(s, i) \in PathByte
EStrQueryNew(s) == \A i \in 1..Len(s) : Ch(s, i) \in QueryByte

(***************************************************************************)
(* response.rs: http::StatusCode as write_to reads it.                     *)
(***************************************************************************)
CanonicalReason(code) ==
    CASE code = "200" -> "OK"
      [] code = "404" -> "Not Found"
      [] OTHER -> None

ReasonOrDefault(code) ==
    IF CanonicalReason(code) = None THEN "" ELSE CanonicalReason(code)

(***************************************************************************)
(* The header loop of the four serialisers: `for header in &mut headers`.  *)
(* next() takes the header off the iterator before it is written, so the   *)
(* header a call stops at is consumed too.  hcalls records every header    *)
(* handed to the writer, with the sink before and after.                   *)
(***************************************************************************)
\* As WriteHeaders, but the header the loop stops at stays in the iterator.
RECURSIVE WriteHeadersPeek(_, _, _, _, _)
WriteHeadersPeek(w, headers, len, hcalls, checked) ==
    IF headers = <<>>
    THEN [w |-> w, headers |-> headers, len |-> len, hcalls |-> hcalls,
          err |-> NoErr]
    ELSE LET header == Head(headers)
             r == IF checked THEN write_header(w, header)
                             ELSE write_header_unchecked(w, header)
             call == [header |-> header, before |-> w.buf,
                      after |-> r.w.buf, res |-> r.res]
         IN  IF r.res.kind # "Ok"
             THEN [w |-> r.w, headers |-> headers, len |-> len,
                   hcalls |-> Append(hcalls, call), err |-> r.res]
             ELSE WriteHeadersPeek(r.w, Tail(headers), len + r.res.len,
                                   Append(hcalls, call), checked)

RECURSIVE WriteHeaders(_, _, _, _, _)
WriteHeaders(w, headers, len, hcalls, checked) ==
    IF headers = <<>>
    THEN [w |-> w, headers |-> headers, len |-> len, hcalls |-> hcalls,
          err |-> NoErr]
    ELSE LET header == Head(headers)
             r == IF checked THEN write_header(w, header)
                             ELSE write_header_unchecked(w, header)
             call == [header |-> header, before |-> w.buf,
                      after |-> r.w.buf, res |-> r.res]
         IN  IF r.res.kind # "Ok"
             THEN [w |-> r.w, headers |-> Tail(headers), len |-> len,
                   hcalls |-> Append(hcalls, call), err |-> r.res]
             ELSE WriteHeaders(r.w, Tail(headers), len + r.res.len,
                               Append(hcalls, call), checked)

\* The query loop of Request::write_to: "?" before the first fragment,
\* "&" before the others; each is validated, then written.
\* As WriteQueries, but with "?" before every fragment.
RECURSIVE WriteQueriesNoAmpersand(_, _, _)
WriteQueriesNoAmpersand(w, queries, sep) ==
    IF queries = <<>>
    THEN [w |-> w, queries |-> queries, err |-> NoErr]
    ELSE LET q == Head(queries)
             r == SinkWrite(w, sep \o q)
         IN  IF ~EStrQueryNew(q)
             THEN [w |-> w, queries |-> Tail(queries),
                   err |-> Err("InvalidQuery")]
             ELSE IF ~r.ok
             THEN [w |-> r.w, queries |-> Tail(queries), err |-> Err("Io")]
             ELSE WriteQueriesNoAmpersand(r.w, Tail(queries), sep)

\* As WriteQueries, but the separator is written before the fragment is
\* validated.
RECURSIVE WriteQueriesSeparatorFirst(_, _, _)
WriteQueriesSeparatorFirst(w, queries, sep) ==
    IF queries = <<>>
    THEN [w |-> w, queries |-> queries, err |-> NoErr]
    ELSE LET q == Head(queries)
             r0 == SinkWrite(w, sep)
             r == SinkWrite(r0.w, q)
         IN  IF ~r0.ok
             THEN [w |-> r0.w, queries |-> Tail(queries), err |-> Err("Io")]
             ELSE IF ~EStrQueryNew(q)
             THEN [w |-> r0.w, queries |-> Tail(queries),
                   err |-> Err("InvalidQuery")]
             ELSE IF ~r.ok
             THEN [w |-> r.w, queries |-> Tail(queries), err |-> Err("Io")]
             ELSE WriteQueriesSeparatorFirst(r.w, Tail(queries), "&")

RECURSIVE WriteQueries(_, _, _)
WriteQueries(w, queries, sep) ==
    IF queries = <<>>
    THEN [w |-> w, queries |-> queries, err |-> NoErr]
    ELSE LET q == Head(queries)
             r == SinkWrite(w, sep \o q)
         IN  IF ~EStrQueryNew(q)
             THEN [w |-> w, queries |-> Tail(queries), err |-> Err("InvalidQuery")]
             ELSE IF ~r.ok
             THEN [w |-> r.w, queries |-> Tail(queries), err |-> Err("Io")]
             ELSE WriteQueries(r.w, Tail(queries), "&")

\* What a serialiser leaves: the result, the sink (its bytes, and whether
\* it reported a failure) and the two iterators.
Outcome(res, w, headers, queries, hcalls) ==
    [res |-> res, buf |-> w.buf, failed |-> SinkFailed(w),
     headers |-> headers, queries |-> queries, hcalls |-> hcalls]

(***************************************************************************)
(* Request::write_to                                                       *)
(***************************************************************************)
RequestWriteTo(a, w) ==
    LET version == as_str(a.version)
        path == IF a.path = None THEN "/" ELSE a.path
        method == MethodStr(a.method)
        r1 == SinkWrite(w, method \o " " \o path)
        rq == WriteQueries(r1.w, a.queries, "?")
        r2 == SinkWrite(rq.w, " HTTP/" \o version \o CRLF)
        len0 == 9 + Len(method) + Len(path) + Len(version)
        rh == WriteHeaders(r2.w, a.headers, len0, <<>>, TRUE)
        r3 == SinkWrite(rh.w, CRLF)
    IN  IF ~VersionOk(version)
        THEN Outcome(Err("InvalidVersion"), w, a.headers, a.queries, <<>>)
        ELSE IF a.path # None /\ (~EStrPathNew(a.path) \/ a.path = "")
        THEN Outcome(Err("InvalidPath"), w, a.headers, a.queries, <<>>)
        ELSE IF ~r1.ok
        THEN Outcome(Err("Io"), r1.w, a.headers, a.queries, <<>>)
        ELSE IF rq.err # NoErr
        THEN Outcome(rq.err, rq.w, a.headers, rq.queries, <<>>)
        ELSE IF ~r2.ok
        THEN Outcome(Err("Io"), r2.w, a.headers, rq.queries, <<>>)
        ELSE IF rh.err # NoErr
        THEN Outcome(InvalidHeader(rh.len, rh.err), rh.w, rh.headers,
                     rq.queries, rh.hcalls)
        ELSE IF ~r3.ok
        THEN Outcome(Err("Io"), r3.w, rh.headers, rq.queries, rh.hcalls)
        ELSE Outcome(Ok(rh.len + 2), r3.w, rh.headers, rq.queries, rh.hcalls)

(***************************************************************************)
(* Request::write_to_unchecked: the query iterator is not read.            *)
(***************************************************************************)
RequestWriteToUnchecked(a, w) ==
    LET version == as_str(a.version)
        path == IF a.path = None THEN "/" ELSE a.path
        method == MethodStr(a.method)
        r1 == SinkWrite(w, method \o " " \o path \o " HTTP/" \o version
                           \o CRLF)
        len0 == 9 + Len(method) + Len(path) + Len(version)
        rh == WriteHeaders(r1.w, a.headers, len0, <<>>, FALSE)
        r3 == SinkWrite(rh.w, CRLF)
    IN  IF ~r1.ok
        THEN Outcome(Err("Io"), r1.w, a.headers, a.queries, <<>>)
        ELSE IF rh.err # NoErr
        THEN Outcome(Err("Io"), rh.w, rh.headers, a.queries, rh.hcalls)
        ELSE IF ~r3.ok
        THEN Outcome(Err("Io"), r3.w, rh.headers, a.queries, rh.hcalls)
        ELSE Outcome(Ok(rh.len + 2), r3.w, rh.headers, a.queries, rh.hcalls)

(***************************************************************************)
(* Response::write_to: the status line and the final CRLF are written with *)
(* write!(..).unwrap(), which panics when the sink fails.                  *)
(***************************************************************************)
ResponseWriteTo(a, w) ==
    LET version == as_str(a.version)
        code == a.code
        reason == ReasonOrDefault(a.code)
        r1 == SinkWrite(w, "HTTP/" \o version \o " " \o code \o " "
                           \o reason \o CRLF)
        len0 == 9 + Len(version) + Len(code) + Len(reason)
        rh == WriteHeaders(r1.w, a.headers, len0, <<>>, TRUE)
        r3 == SinkWrite(rh.w, CRLF)
    IN  IF ~VersionOk(version)
        THEN Outcome(Err("InvalidVersion"), w, a.headers, a.queries, <<>>)
        ELSE IF ~r1.ok
        THEN Outcome(Err("Panic"), r1.w, a.headers, a.queries, <<>>)
        ELSE IF rh.err # NoErr
        THEN Outcome(InvalidHeader(rh.len, rh.err), rh.w, rh.headers,
                     a.queries, rh.hcalls)
        ELSE IF ~r3.ok
        THEN Outcome(Err("Panic"), r3.w, rh.headers, a.queries, rh.hcalls)
        ELSE Outcome(Ok(rh.len + 2), r3.w, rh.headers, a.queries, rh.hcalls)

(***************************************************************************)
(* Response::write_to_unchecked returns a bare usize: it has no error to   *)
(* return, and a sink failure ends it in a panic like the unwraps beside   *)
(* the header loop.                                                        *)
(***************************************************************************)
ResponseWriteToUnchecked(a, w) ==
    LET version == as_str(a.version)
        code == a.code
        reason == ReasonOrDefault(a.code)
        r1 == SinkWrite(w, "HTTP/" \o version \o " " \o code \o " "
                           \o reason \o CRLF)
        len0 == 9 + Len(version) + Len(code) + Len(reason)
        rh == WriteHeaders(r1.w, a.headers, len0, <<>>, FALSE)
        r3 == SinkWrite(rh.w, CRLF)
    IN  IF ~r1.ok
        THEN Outcome(Err("Panic"), r1.w, a.headers, a.queries, <<>>)
        ELSE IF rh.err # NoErr
        THEN Outcome(Err("Panic"), rh.w, rh.headers, a.queries, rh.hcalls)
        ELSE IF ~r3.ok
        THEN Outcome(Err("Panic"), r3.w, rh.headers, a.queries, rh.hcalls)
        ELSE Outcome(Ok(rh.len + 2), r3.w, rh.headers, a.queries, rh.hcalls)

WriteToOf(a, w) ==
    IF a.kind = "Request" THEN RequestWriteTo(a, w) ELSE ResponseWriteTo(a, w)

WriteToUncheckedOf(a, w) ==
    IF a.kind = "Request" THEN RequestWriteToUnchecked(a, w)
    ELSE ResponseWriteToUnchecked(a, w)

(***************************************************************************)
(* The inputs the model draws from.                                        *)
(***************************************************************************)
Methods == {Get, Custom("X")}
Codes == {"200", "404", "299"}
Paths == {"abc", "", "a b"}
Versions == {V1, V1_1, UNSPECIFIED, Dynamic("abc"), Dynamic("x.y"),
             Dynamic("11")}
HeaderPool ==
    {[name |-> "a", value |-> "1"],
     [name |-> "b-c", value |-> "2 3"],
     [name |-> "d e", value |-> LF],
     [name |-> "f", value |-> "4" \o CR]}
QueryPool == {"a=b", "c", "d e"}

\* The most sink operations one call makes: the line, the queries, the
\* version, four per header, the final CRLF.
MaxSinkWrites == 3 + MaxQueries + 4 * MaxHeaders

(***************************************************************************)
(* The assemblers.                                                         *)
(***************************************************************************)
RequestNew(method) ==
    [kind |-> "Request", method |-> method, code |-> None, path |-> None,
     version |-> UNSPECIFIED, headers |-> <<>>, queries |-> <<>>]

ResponseNew(status_code) ==
    [kind |-> "Response", method |-> NoMethod, code |-> status_code,
     path |-> None, version |-> UNSPECIFIED, headers |-> <<>>,
     queries |-> <<>>]

NoCall == [op |-> "none"]

Init ==
    /\ asm \in {RequestNew(m) : m \in Methods}
                \cup {ResponseNew(c) : c \in Codes}
    /\ last = NoCall
    /\ prev = NoCall
    /\ calls = 0

\* The configuration calls take the assembler by value and return a new
\* one: they belong to the time before the assembler is first serialised.
Building == last.op = "none"

\* Request::path
SetPath ==
    /\ Building
    /\ asm.kind = "Request"
    /\ \E p \in Paths : asm' = [asm EXCEPT !.path = p]
    /\ UNCHANGED <<last, prev, calls>>

\* Request::version, Response::version (v1 and v1_1 among them)
SetVersion ==
    /\ Building
    /\ \E v \in Versions : asm' = [asm EXCEPT !.version = v]
    /\ UNCHANGED <<last, prev, calls>>

\* Request::header, Response::header: headers.chain(once(h))
AddHeader ==
    /\ Building
    /\ Len(asm.headers) < MaxHeaders
    /\ \E h \in HeaderPool : asm' = [asm EXCEPT !.headers = Append(@, h)]
    /\ UNCHANGED <<last, prev, calls>>

\* Request::query: queries.chain(once(q))
AddQuery ==
    /\ Building
    /\ asm.kind = "Request"
    /\ Len(asm.queries) < MaxQueries
    /\ \E q \in QueryPool : asm' = [asm EXCEPT !.queries = Append(@, q)]
    /\ UNCHANGED <<last, prev, calls>>

\* As Called, but the serialiser has iterated over copies of the iterators.
CalledOnCopies(op, out) ==
    /\ asm' = asm
    /\ last' = [op |-> op, pre |-> asm, failed |-> out.failed,
                res |-> out.res, buf |-> out.buf, hcalls |-> out.hcalls]
    /\ prev' = last
    /\ calls' = calls + 1

\* The serialisers take &mut self: a call leaves the iterators where it
\* left them.  The model keeps what the call was given and what it returned.
Called(op, out) ==
    /\ asm' = [asm EXCEPT !.headers = out.headers, !.queries = out.queries]
    /\ last' = [op |-> op, pre |-> asm, failed |-> out.failed,
                res |-> out.res, buf |-> out.buf, hcalls |-> out.hcalls]
    /\ prev' = last
    /\ calls' = calls + 1

\* write_to of a configured assembler, into a fresh sink of any kind.
WriteTo ==
    /\ Building
    /\ \E failAt \in 0..MaxSinkWrites :
           Called("write_to", WriteToOf(asm, NewSink(failAt)))

\* write_to_unchecked of a configured assembler, into a fresh Vec<u8>.
WriteToUnchecked ==
    /\ Building
    /\ Called("write_to_unchecked", WriteToUncheckedOf(asm, NewSink(0)))

\* write_to, the first time or again on the same assembler, into a fresh
\* Vec<u8>.
WriteToAgain ==
    /\ calls < MaxWrites
    /\ Called("write_to", WriteToOf(asm, NewSink(0)))

Configure ==
    \/ SetPath
    \/ SetVersion
    \/ AddHeader
    \/ AddQuery

\* An assembler is configured and then serialised once.
Next ==
    \/ Configure
    \/ WriteTo
    \/ WriteToUnchecked

Spec == Init /\ [][Next]_vars

\* An assembler is configured and then serialised several times.
NextReuse ==
    \/ Configure
    \/ WriteToAgain

SpecReuse == Init /\ [][NextReuse]_vars

(***************************************************************************)
(* The header validator/writer on its own: a Response with one header,     *)
(* whose name and value range over strings with every kind of byte at      *)
(* every place, serialised into a sink of any kind.                        *)
(***************************************************************************)
WideNames == {"", "a", "A-z_9", "Content-Type", " a", "a b", "ab:", "a:b c",
              "x" \o CR}
WideValues == {"", "1", "a b: c", CR, "1" \o LF, "12" \o NUL, "1" \o CRLF,
               NUL \o CR}

InitHeader ==
    /\ asm \in {[ResponseNew("200") EXCEPT
                    !.version = V1_1,
                    !.headers = <<[name |-> n, value |-> v]>>] :
                n \in WideNames, v \in WideValues}
    /\ last = NoCall
    /\ prev = NoCall
    /\ calls = 0

SpecHeader == InitHeader /\ [][WriteTo]_vars

(***************************************************************************)
(* The wire format of section 6 of the specification, written out from an  *)
(* assembler's fields.                                                     *)
(***************************************************************************)
RECURSIVE HeaderLines(_)
HeaderLines(hs) ==
    IF hs = <<>> THEN ""
    ELSE Head(hs).name \o ": " \o Head(hs).value \o CRLF
         \o HeaderLines(Tail(hs))

RECURSIVE QueryString(_)
QueryString(qs) ==
    IF qs = <<>> THEN ""
    ELSE IF Len(qs) = 1 THEN "?" \o qs[1]
    ELSE QueryString(SubSeq(qs, 1, Len(qs) - 1)) \o "&" \o qs[Len(qs)]

PathOrSlash(a) == IF a.path = None THEN "/" ELSE a.path

\* METHOD SP PATH, the start of a request line
LineStart(a) == MethodStr(a.method) \o " " \o PathOrSlash(a)

\* The canonical reason phrases of the status codes in use; none for 299.
ReasonPhrase(code) ==
    IF code = "200" THEN "OK" ELSE IF code = "404" THEN "Not Found" ELSE ""

\* The request or status line of assembler a with query fragments qs.
FirstLine(a, qs) ==
    IF a.kind = "Request"
    THEN LineStart(a) \o QueryString(qs) \o " HTTP/" \o as_str(a.version)
         \o CRLF
    ELSE "HTTP/" \o as_str(a.version) \o " " \o a.code \o " "
         \o ReasonPhrase(a.code) \o CRLF

Wire(a) == FirstLine(a, a.queries) \o HeaderLines(a.headers) \o CRLF

NameByteAllowed(ch) == ch \in Digit \cup Alpha \cup {"-", "_"}
ValueByteAllowed(ch) == ch \notin {CR, LF, NUL}

\* i is the 0-based index of the first byte of s that is not Allowed.
FirstOffence(s, i, Allowed(_)) ==
    /\ i + 1 \in 1..Len(s)
    /\ ~Allowed(Ch(s, i + 1))
    /\ \A j \in 1..i : Allowed(Ch(s, j))

AllAllowed(s, Allowed(_)) == \A j \in 1..Len(s) : Allowed(Ch(s, j))

ValidHeader(h) ==
    AllAllowed(h.name, NameByteAllowed) /\ AllAllowed(h.value, ValueByteAllowed)

\* k is the index of the first element of seq that is not Good.
FirstBad(seq, k, Good(_)) ==
    /\ k \in 1..Len(seq)
    /\ ~Good(seq[k])
    /\ \A j \in 1..(k - 1) : Good(seq[j])

CheckedCall == last.op = "write_to"

(***************************************************************************)
(* C1: a successful checked write_to puts exactly the wire format of the   *)
(* assembler into the sink: the request line with path (or "/") and the    *)
(* query fragments in append order, or the status line; one line per       *)
(* header in append order; the final CRLF.  The assembler is the one the   *)
(* configuration calls built, in whatever order they were made.            *)
(***************************************************************************)
C1_WireFormat ==
    (CheckedCall /\ last.res.kind = "Ok") => last.buf = Wire(last.pre)

C1_Witness ==
    /\ CheckedCall
    /\ last.res.kind = "Ok"
    /\ last.pre.kind = "Request"
    /\ last.pre.path = "abc"
    /\ Len(last.pre.queries) = 2
    /\ Len(last.pre.headers) = 2
    /\ last.pre.headers[1] # last.pre.headers[2]
    /\ last.pre.queries[1] # last.pre.queries[2]

(***************************************************************************)
(* C2: the byte count a successful checked write_to returns is the number  *)
(* of bytes the call put into the sink, query string included.             *)
(***************************************************************************)
C2_CountIsBytesWritten ==
    (CheckedCall /\ last.res.kind = "Ok") => last.res.len = Len(last.buf)

(***************************************************************************)
(* C3: checked write_to returns InvalidVersion exactly when the version's  *)
(* wire string is not three bytes long or holds neither a digit nor a      *)
(* '.'; then nothing is written and no header or query is consumed; an     *)
(* assembler whose version was never set always fails so.                  *)
(***************************************************************************)
C3_InvalidVersion ==
    CheckedCall =>
        LET v == as_str(last.pre.version)
            bad == \/ Len(v) # 3
                   \/ \A i \in 1..Len(v) : Ch(v, i) \notin Digit \cup {"."}
        IN  /\ (last.res.kind = "InvalidVersion") <=> bad
            /\ last.pre.version = UNSPECIFIED
                   => last.res.kind = "InvalidVersion"
            /\ last.res.kind = "InvalidVersion" =>
                   /\ last.buf = ""
                   /\ last.hcalls = <<>>
                   /\ asm.headers = last.pre.headers
                   /\ asm.queries = last.pre.queries

C3_Witness ==
    /\ CheckedCall
    /\ last.pre.version = UNSPECIFIED
    /\ last.res.kind = "InvalidVersion"
    /\ Len(last.pre.headers) = 2
    /\ Len(last.pre.queries) = 2

(***************************************************************************)
(* C4: write_header answers InvalidName(i), i the index of the first byte  *)
(* of the name that is not alphanumeric, '-' or '_'; else InvalidValue(j), *)
(* j the index of the first CR, LF or NUL of the value; and writes nothing *)
(* in both cases.  Else, on a sink that accepts the writes, it writes      *)
(* `name: value CRLF` and returns len(name) + 2 + len(value) + 2.          *)
(***************************************************************************)
C4_WriteHeader ==
    CheckedCall =>
        \A n \in DOMAIN last.hcalls :
            LET c == last.hcalls[n]
                name == c.header.name
                value == c.header.value
            IN  IF ~AllAllowed(name, NameByteAllowed)
                THEN /\ c.res.kind = "InvalidName"
                     /\ FirstOffence(name, c.res.pos, NameByteAllowed)
                     /\ c.after = c.before
                ELSE IF ~AllAllowed(value, ValueByteAllowed)
                THEN /\ c.res.kind = "InvalidValue"
                     /\ FirstOffence(value, c.res.pos, ValueByteAllowed)
                     /\ c.after = c.before
                ELSE /\ c.res.kind \in {"Ok", "Io"}
                     /\ c.res.kind = "Io" => last.failed
                     /\ ~last.failed => c.res.kind = "Ok"
                     /\ c.res.kind = "Ok" =>
                            /\ c.after = c.before \o name \o ": " \o value
                                                  \o CRLF
                            /\ c.res.len = Len(name) + 2 + Len(value) + 2

C4_Witness ==
    /\ CheckedCall
    /\ Len(last.hcalls) = 1
    /\ last.hcalls[1].res = InvalidValue(2)
    /\ last.hcalls[1].header.name = "Content-Type"

(***************************************************************************)
(* C5: when checked write_to fails with InvalidHeader{buffer_offset, err}, *)
(* buffer_offset is the number of bytes the call had written to the sink   *)
(* before it reached that header, the query string included, and err is    *)
(* that header's error.                                                    *)
(***************************************************************************)
C5_BufferOffset ==
    (CheckedCall /\ last.res.kind = "InvalidHeader") =>
        LET c == last.hcalls[Len(last.hcalls)]
        IN  /\ last.res.buffer_offset = Len(c.before)
            /\ last.res.err = c.res

(***************************************************************************)
(* C6: checked write_to stops at the first invalid component and leaves    *)
(* what it wrote: nothing on InvalidVersion and InvalidPath; on            *)
(* InvalidQuery at fragment k, `METHOD SP PATH` and the k-1 earlier        *)
(* fragments with their separators, and no byte of fragment k; on an       *)
(* invalid header k, the whole first line and the k-1 earlier header       *)
(* lines, and no byte of header k.                                         *)
(***************************************************************************)
C6_StopsAtFirstInvalid ==
    CheckedCall =>
        LET a == last.pre
        IN  /\ last.res.kind \in {"InvalidVersion", "InvalidPath"}
                   => last.buf = ""
            /\ last.res.kind = "InvalidQuery" =>
                   \E k \in 1..Len(a.queries) :
                       /\ FirstBad(a.queries, k, EStrQueryNew)
                       /\ last.buf = LineStart(a)
                              \o QueryString(SubSeq(a.queries, 1, k - 1))
            /\ (/\ last.res.kind = "InvalidHeader"
                /\ last.res.err.kind \in {"InvalidName", "InvalidValue"}) =>
                   \E k \in 1..Len(a.headers) :
                       /\ FirstBad(a.headers, k, ValidHeader)
                       /\ last.buf = FirstLine(a, a.queries)
                              \o HeaderLines(SubSeq(a.headers, 1, k - 1))

C6_Witness ==
    /\ CheckedCall
    /\ last.res.kind = "InvalidQuery"
    /\ FirstBad(last.pre.queries, 2, EStrQueryNew)
    /\ last.pre.headers # <<>>

(***************************************************************************)
(* C7: where checked write_to succeeds, write_to_unchecked of an           *)
(* identically built assembler writes the same bytes and returns the same  *)
(* count, the number of bytes written.                                     *)
(***************************************************************************)
C7_UncheckedSameAsChecked ==
    last.op = "write_to_unchecked" =>
        LET c == WriteToOf(last.pre, NewSink(0))
        IN  c.res.kind = "Ok" =>
                /\ last.buf = c.buf
                /\ last.res = c.res
                /\ last.res.len = Len(last.buf)

(***************************************************************************)
(* C8: a second write_to, after a first successful one has drained the     *)
(* headers and queries, succeeds and writes only the request or status     *)
(* line, with the same method or status, path and version and no query     *)
(* string, and the final CRLF.                                             *)
(***************************************************************************)
C8_SecondCallIsBare ==
    (prev.op = "write_to" /\ prev.res.kind = "Ok" /\ CheckedCall) =>
        /\ last.res.kind = "Ok"
        /\ last.hcalls = <<>>
        /\ last.buf = FirstLine(prev.pre, <<>>) \o CRLF

C8_Witness ==
    /\ prev.op = "write_to"
    /\ prev.res.kind = "Ok"
    /\ CheckedCall
    /\ prev.pre.kind = "Request"
    /\ Len(prev.pre.headers) = 2
    /\ Len(prev.pre.queries) = 2

(***************************************************************************)
(* C9: when the sink reports a failure during checked write_to, the call   *)
(* returns an error of kind Io: no panic, no other kind, no Ok.            *)
(***************************************************************************)
C9_SinkFailureIsIo ==
    (CheckedCall /\ last.failed) => last.res.kind = "Io"

(***************************************************************************)
(* C10: every header and every query fragment is consumed at most once,    *)
(* by a failing call too.  After InvalidHeader at header k of n the next   *)
(* write_to has headers k+1..n and no query left: it writes the first line *)
(* without a query string and the lines of headers k+1..n, up to the first *)
(* invalid one, and returns Ok when all of them are valid.  After          *)
(* InvalidQuery at fragment k its query string starts at fragment k+1.     *)
(***************************************************************************)
C10_ConsumedOnce ==
    (prev.op = "write_to" /\ CheckedCall) =>
        LET p == prev.pre
            a == last.pre
            n == Len(p.headers)
            m == Len(p.queries)
        IN  /\ \E k \in 0..n : /\ a.headers = SubSeq(p.headers, k + 1, n)
                               /\ k = Len(prev.hcalls)
            /\ \E k \in 0..m : a.queries = SubSeq(p.queries, k + 1, m)
            /\ prev.res.kind = "InvalidHeader" =>
                   \E k \in 1..n :
                       LET rest == SubSeq(p.headers, k + 1, n)
                       IN  /\ FirstBad(p.headers, k, ValidHeader)
                           /\ a.headers = rest
                           /\ a.queries = <<>>
                           /\ (\A j \in 1..Len(rest) : ValidHeader(rest[j]))
                                  => /\ last.res.kind = "Ok"
                                     /\ last.buf = FirstLine(p, <<>>)
                                            \o HeaderLines(rest) \o CRLF
                           /\ \A j \in 1..Len(rest) :
                                  FirstBad(rest, j, ValidHeader)
                                      => /\ last.res.kind = "InvalidHeader"
                                         /\ last.buf = FirstLine(p, <<>>)
                                                \o HeaderLines(
                                                       SubSeq(rest, 1, j - 1))
            /\ prev.res.kind = "InvalidQuery" =>
                   \E k \in 1..m :
                       LET rest == SubSeq(p.queries, k + 1, m)
                       IN  /\ FirstBad(p.queries, k, EStrQueryNew)
                           /\ a.queries = rest
                           /\ a.headers = p.headers
                           /\ (rest # <<>> /\ EStrQueryNew(rest[1])) =>
                                  SubSeq(last.buf, 1,
                                         Len(LineStart(p)) + 1 + Len(rest[1]))
                                      = LineStart(p) \o "?" \o rest[1]

C10_Witness ==
    /\ prev.op = "write_to"
    /\ prev.res.kind = "InvalidHeader"
    /\ CheckedCall
    /\ Len(prev.pre.headers) = 2
    /\ FirstBad(prev.pre.headers, 1, ValidHeader)
    /\ last.res.kind = "Ok"
    /\ Len(last.hcalls) = 1

====
